---- MODULE Spec2Model ----
(***************************************************************************)
(* Model of the L4 segment codec of Link-rs: Segment::encode and           *)
(* Segment::decode of src/segment.rs and their copy in src/frame.rs.       *)
(*                                                                         *)
(* Numbers keep the width they have in the source.  TLC's integers stop    *)
(* below 2^31, so a usize or u32 value v is held as two 16-bit-based       *)
(* words [hi |-> v \div 2^16, lo |-> v % 2^16] and a u64 as four 16-bit    *)
(* words, most significant first.  A byte buffer is held as                *)
(* [len, head, fill]: its first Len(head) bytes are head and every later   *)
(* byte up to len is fill, which lets buffers of 2^32 bytes be written.    *)
(***************************************************************************)
EXTENDS Integers, Sequences, FiniteSets, TLC

VARIABLES input, encoded, decoded, redecoded, reencoded, f_encoded, f_decoded

vars == <<input, encoded, decoded, redecoded, reencoded, f_encoded, f_decoded>>

\* ------------------------------------------------------------ bounds
\* longest payload whose bytes are enumerated one by one
MaxPayload == 2
\* how many bytes a received buffer may hold beyond the 13-byte header
MaxTail == 2

\* ------------------------------------------------------------ numbers
Byte == 0..255
Word == 256 * 256

\* a small natural number as a usize
N(v) == [hi |-> v \div Word, lo |-> v % Word]

NumAdd(a, b) ==
    LET s == a.lo + b.lo
    IN  [hi |-> a.hi + b.hi + (s \div Word), lo |-> s % Word]

\* a - k for a small natural k, defined when a >= k
NumSub(a, k) ==
    LET s == a.lo - k
    IN  IF s >= 0 THEN [hi |-> a.hi, lo |-> s]
                  ELSE [hi |-> a.hi - 1, lo |-> s + Word]

NumLt(a, b) == a.hi < b.hi \/ (a.hi = b.hi /\ a.lo < b.lo)

NumLe(a, b) == ~NumLt(b, a)

\* `usize as u32`: keeps the low 32 bits
as_u32(n) == [hi |-> n.hi % Word, lo |-> n.lo]

\* fault variant: the conversion wraps modulo 2^32 instead of failing
u32_try_from_wrapping(n) == [kind |-> "Ok", value |-> as_u32(n)]

\* u32::try_from(usize): Ok when the value fits in 32 bits
u32_try_from(n) ==
    IF n.hi < Word THEN [kind |-> "Ok", value |-> n] ELSE [kind |-> "Err"]

\* u32::to_be_bytes
to_be_bytes(v) == <<v.hi \div 256, v.hi % 256, v.lo \div 256, v.lo % 256>>

\* u64 -> its 8 big-endian bytes (a u64 is four 16-bit words, high word first)
u64_to_be_bytes(q) ==
    <<q[1] \div 256, q[1] % 256, q[2] \div 256, q[2] % 256,
      q[3] \div 256, q[3] % 256, q[4] \div 256, q[4] % 256>>

\* ------------------------------------------------------------ byte buffers
\* a buffer holding exactly the bytes of the sequence s
Plain(s) == [len |-> N(Len(s)), head |-> s, fill |-> 0]

\* the byte at 0-based offset i (i below the buffer's length)
ByteAt(b, i) == IF i < Len(b.head) THEN b.head[i + 1] ELSE b.fill

\* the natural number min(n, k) of a usize n and a small natural k
MinNat(n, k) == IF NumLt(n, N(k)) THEN n.lo ELSE k

\* ------------------------------------------------------------ bytes crate calls
\* BytesMut::with_capacity: an empty buffer
with_capacity(n) == Plain(<<>>)

\* append the bytes of the sequence s to a buffer that holds exactly its head
Put(b, s) == [len |-> NumAdd(b.len, N(Len(s))), head |-> b.head \o s, fill |-> 0]

put_u32(b, v) == Put(b, to_be_bytes(v))

put_u8(b, x) == Put(b, <<x>>)

\* fault variant: the sequence number is written little-endian
put_u64_le(b, q) ==
    Put(b, [i \in 1..8 |-> u64_to_be_bytes(q)[9 - i]])

put_u64(b, q) == Put(b, u64_to_be_bytes(q))

\* BufMut::put_slice: append all bytes of data
put_slice(b, data) ==
    [len |-> NumAdd(b.len, data.len), head |-> b.head \o data.head, fill |-> data.fill]

\* fault variant: the zero placeholder is never overwritten
copy_from_slice_skipped(b, src) == b

\* buf[0..4].copy_from_slice(src): overwrite the first four bytes
copy_from_slice(b, src) ==
    [b EXCEPT !.head = [i \in 1..Len(b.head) |-> IF i <= 4 THEN src[i] ELSE b.head[i]]]

\* Buf::get_u32 at offset pos: four bytes, big-endian
get_u32(b, pos) ==
    [hi |-> ByteAt(b, pos) * 256 + ByteAt(b, pos + 1),
     lo |-> ByteAt(b, pos + 2) * 256 + ByteAt(b, pos + 3)]

get_u8(b, pos) == ByteAt(b, pos)

\* Buf::get_u64 at offset pos: eight bytes, big-endian
get_u64(b, pos) ==
    [k \in 1..4 |-> ByteAt(b, pos + 2 * (k - 1)) * 256 + ByteAt(b, pos + 2 * (k - 1) + 1)]

\* the cursor at offset pos still has n bytes to give (the crate panics otherwise)
Remaining(b, pos, n) == NumLe(N(pos + n), b.len)

\* fault variant: the whole rest of the buffer is copied, not n bytes of it
CopySlice_rest(b, pos, n) ==
    [len  |-> NumSub(b.len, pos),
     head |-> SubSeq(b.head, pos + 1, Len(b.head)),
     fill |-> b.fill]

\* Bytes::copy_from_slice(&slice[..n]) with the cursor at offset pos
CopySlice(b, pos, n) ==
    [len  |-> n,
     head |-> SubSeq(b.head, pos + 1, MinNat(NumAdd(N(pos), n), Len(b.head))),
     fill |-> b.fill]

\* ------------------------------------------------------------ src/segment.rs
SegmentType == {"Data", "Ack", "Syn"}

\* fault variant: Ack and Syn carry each other's discriminant
TypeTag_swapped(t) == CASE t = "Data" -> 0 [] t = "Ack" -> 2 [] t = "Syn" -> 1

\* `segment_type as u8`
TypeTag(t) == CASE t = "Data" -> 0 [] t = "Ack" -> 1 [] t = "Syn" -> 2

FIXED_HEADER_LEN == 4 + 1 + 8

NoBuf == [kind |-> "None"]

Range(from, to) == [from |-> from, to |-> to]

\* Segment::new
new(segment_type, seq, data) ==
    [segment_type |-> segment_type, seq |-> seq, data |-> data]

\* Segment::encode, with the BytesMut it built when it returned
encode_run(self) ==
    LET data_len == self.data.len
        total_len == NumAdd(N(FIXED_HEADER_LEN), data_len)
        total_len_u32 == u32_try_from(total_len)
    IN  IF total_len_u32.kind = "Err"
        THEN [result |-> [kind |-> "TotalLenOverflow", len |-> total_len],
              buf |-> NoBuf]
        ELSE LET b0 == with_capacity(total_len)
                 b1 == put_u32(b0, N(0))
                 b2 == put_u8(b1, TypeTag(self.segment_type))
                 b3 == put_u64(b2, self.seq)
                 b4 == put_slice(b3, self.data)
                 b5 == copy_from_slice(b4, to_be_bytes(total_len_u32.value))
             IN  [result |-> [kind |-> "Ok", buf |-> b5], buf |-> b5]

encode(self) == encode_run(self).result

\* fault variant: off by one, a 3-byte buffer passes
too_short_3(buf) == NumLt(buf.len, N(3))

\* decode's first test: the length field itself cannot be read
too_short(buf) == NumLt(buf.len, N(4))

\* fault variant: a declared length below the fixed header is let through
invalid_total_len_no_min(total_len_declared, buf) ==
    NumLt(buf.len, total_len_declared)

\* fault variant: a declared length beyond the buffer is let through
invalid_total_len_no_max(total_len_declared, buf) ==
    NumLt(total_len_declared, N(FIXED_HEADER_LEN))

\* decode's test of the declared total length
invalid_total_len(total_len_declared, buf) ==
    \/ NumLt(buf.len, total_len_declared)
    \/ NumLt(total_len_declared, N(FIXED_HEADER_LEN))

\* fault variant: an unknown tag is taken as Data
match_type_default(t) ==
    CASE t = 1 -> [kind |-> "Ok", segment_type |-> "Ack"]
      [] t = 2 -> [kind |-> "Ok", segment_type |-> "Syn"]
      [] OTHER -> [kind |-> "Ok", segment_type |-> "Data"]

\* decode's match on the type byte
match_type(t) ==
    CASE t = 0 -> [kind |-> "Ok", segment_type |-> "Data"]
      [] t = 1 -> [kind |-> "Ok", segment_type |-> "Ack"]
      [] t = 2 -> [kind |-> "Ok", segment_type |-> "Syn"]
      [] OTHER -> [kind |-> "UnknownFrameType", t |-> t]

\* Segment::decode, with the byte ranges [from, to) of buf it went to read;
\* a read the buffer cannot serve panics
decode_run(buf) ==
    IF too_short(buf)
    THEN [result |-> [kind |-> "TooShort"], reads |-> {}]
    ELSE
    LET r1 == {Range(N(0), N(4))}
    IN  IF ~Remaining(buf, 0, 4)
        THEN [result |-> [kind |-> "Panic"], reads |-> r1]
        ELSE
    LET total_len_declared == get_u32(buf, 0)
    IN  IF invalid_total_len(total_len_declared, buf)
        THEN [result |-> [kind |-> "InvalidTotalLen",
                          declared |-> as_u32(total_len_declared),
                          actual |-> buf.len],
              reads |-> r1]
        ELSE
    LET r2 == r1 \cup {Range(N(4), N(5))}
    IN  IF ~Remaining(buf, 4, 1)
        THEN [result |-> [kind |-> "Panic"], reads |-> r2]
        ELSE
    LET m == match_type(get_u8(buf, 4))
    IN  IF m.kind # "Ok"
        THEN [result |-> m, reads |-> r2]
        ELSE
    LET r3 == r2 \cup {Range(N(5), N(13))}
    IN  IF ~Remaining(buf, 5, 8)
        THEN [result |-> [kind |-> "Panic"], reads |-> r3]
        ELSE
    LET seq == get_u64(buf, 5)
    IN  IF NumLt(total_len_declared, N(FIXED_HEADER_LEN))
        THEN [result |-> [kind |-> "Panic"], reads |-> r3]
        ELSE
    LET data_len == NumSub(total_len_declared, FIXED_HEADER_LEN)
        r4 == r3 \cup {Range(N(13), NumAdd(N(13), data_len))}
    IN  IF NumLt(buf.len, NumAdd(N(13), data_len))
        THEN [result |-> [kind |-> "Panic"], reads |-> r4]
        ELSE [result |-> [kind |-> "Ok",
                          seg |-> [segment_type |-> m.segment_type,
                                   seq |-> seq,
                                   data |-> CopySlice(buf, 13, data_len)]],
              reads |-> r4]

decode(buf) == decode_run(buf).result

\* ------------------------------------------------------------ src/frame.rs
FrameType == {"Data", "Ack", "Syn"}

\* `frame_type as u8`
FrameTypeTag(t) == CASE t = "Data" -> 0 [] t = "Ack" -> 1 [] t = "Syn" -> 2

FRAME_FIXED_HEADER_LEN == 4 + 1 + 8

\* frame.rs Segment::new
frame_new(frame_type, seq, data) ==
    [frame_type |-> frame_type, seq |-> seq, data |-> data]

\* frame.rs Segment::encode, with the BytesMut it built when it returned
frame_encode_run(self) ==
    LET data_len == self.data.len
        total_len == NumAdd(N(FRAME_FIXED_HEADER_LEN), data_len)
        total_len_u32 == u32_try_from(total_len)
    IN  IF total_len_u32.kind = "Err"
        THEN [result |-> [kind |-> "TotalLenOverflow", len |-> total_len],
              buf |-> NoBuf]
        ELSE LET b0 == with_capacity(total_len)
                 b1 == put_u32(b0, N(0))
                 b2 == put_u8(b1, FrameTypeTag(self.frame_type))
                 b3 == put_u64(b2, self.seq)
                 b4 == put_slice(b3, self.data)
                 b5 == copy_from_slice(b4, to_be_bytes(total_len_u32.value))
             IN  [result |-> [kind |-> "Ok", buf |-> b5], buf |-> b5]

frame_encode(self) == frame_encode_run(self).result

\* decode's first test: the length field itself cannot be read
frame_too_short(buf) == NumLt(buf.len, N(4))

\* fault variant: frame.rs rejects a buffer of exactly the declared length
frame_invalid_total_len_ge(total_len_declared, buf) ==
    \/ NumLe(buf.len, total_len_declared)
    \/ NumLt(total_len_declared, N(FRAME_FIXED_HEADER_LEN))

\* decode's test of the declared total length
frame_invalid_total_len(total_len_declared, buf) ==
    \/ NumLt(buf.len, total_len_declared)
    \/ NumLt(total_len_declared, N(FRAME_FIXED_HEADER_LEN))

\* decode's match on the type byte
frame_match_type(t) ==
    CASE t = 0 -> [kind |-> "Ok", frame_type |-> "Data"]
      [] t = 1 -> [kind |-> "Ok", frame_type |-> "Ack"]
      [] t = 2 -> [kind |-> "Ok", frame_type |-> "Syn"]
      [] OTHER -> [kind |-> "UnknownFrameType", t |-> t]

\* frame.rs Segment::decode, with the byte ranges [from, to) of buf it went to read;
\* a read the buffer cannot serve panics
frame_decode_run(buf) ==
    IF frame_too_short(buf)
    THEN [result |-> [kind |-> "TooShort"], reads |-> {}]
    ELSE
    LET r1 == {Range(N(0), N(4))}
    IN  IF ~Remaining(buf, 0, 4)
        THEN [result |-> [kind |-> "Panic"], reads |-> r1]
        ELSE
    LET total_len_declared == get_u32(buf, 0)
    IN  IF frame_invalid_total_len(total_len_declared, buf)
        THEN [result |-> [kind |-> "InvalidTotalLen",
                          declared |-> as_u32(total_len_declared),
                          actual |-> buf.len],
              reads |-> r1]
        ELSE
    LET r2 == r1 \cup {Range(N(4), N(5))}
    IN  IF ~Remaining(buf, 4, 1)
        THEN [result |-> [kind |-> "Panic"], reads |-> r2]
        ELSE
    LET m == frame_match_type(get_u8(buf, 4))
    IN  IF m.kind # "Ok"
        THEN [result |-> m, reads |-> r2]
        ELSE
    LET r3 == r2 \cup {Range(N(5), N(13))}
    IN  IF ~Remaining(buf, 5, 8)
        THEN [result |-> [kind |-> "Panic"], reads |-> r3]
        ELSE
    LET seq == get_u64(buf, 5)
    IN  IF NumLt(total_len_declared, N(FRAME_FIXED_HEADER_LEN))
        THEN [result |-> [kind |-> "Panic"], reads |-> r3]
        ELSE
    LET data_len == NumSub(total_len_declared, FRAME_FIXED_HEADER_LEN)
        r4 == r3 \cup {Range(N(13), NumAdd(N(13), data_len))}
    IN  IF NumLt(buf.len, NumAdd(N(13), data_len))
        THEN [result |-> [kind |-> "Panic"], reads |-> r4]
        ELSE [result |-> [kind |-> "Ok",
                          seg |-> [frame_type |-> m.frame_type,
                                   seq |-> seq,
                                   data |-> CopySlice(buf, 13, data_len)]],
              reads |-> r4]

frame_decode(buf) == frame_decode_run(buf).result

\* ------------------------------------------------------------ inputs
\* sequences over S of length at most n
BSeq(S, n) == UNION {[1..k -> S] : k \in 0..n}

\* u64 sequence numbers: 0, 12345, 0x0102030405060708, u64::MAX
SeqValues ==
    {<<0, 0, 0, 0>>, <<0, 0, 0, 12345>>, <<258, 772, 1286, 1800>>,
     <<Word - 1, Word - 1, Word - 1, Word - 1>>}

PayloadBytes == {0, 17, 255}

\* payload lengths around the ceiling of the length field:
\* 2^32 - 15, 2^32 - 14, 2^32 - 13, 2^32 - 1, 2^32, 2^33 + 5
BigPayloadLens ==
    {[hi |-> Word - 1, lo |-> Word - 15], [hi |-> Word - 1, lo |-> Word - 14],
     [hi |-> Word - 1, lo |-> Word - 13], [hi |-> Word - 1, lo |-> Word - 1],
     [hi |-> Word, lo |-> 0], [hi |-> 2 * Word, lo |-> 5]}

Payloads ==
    {Plain(s) : s \in BSeq(PayloadBytes, MaxPayload)}
    \cup {[len |-> n, head |-> h, fill |-> f] :
            n \in BigPayloadLens, h \in {<<>>, <<17, 34>>}, f \in {0, 51}}

SegmentInputs ==
    {[kind |-> "segment", segment_type |-> t, seq |-> q, data |-> d] :
        t \in SegmentType, q \in SeqValues, d \in Payloads}

\* length fields of received buffers: 0 .. 13 + MaxTail + 1, and large ones
LenFields ==
    {<<0, 0, 0, x>> : x \in 0..(13 + MaxTail + 1)}
    \cup {<<0, 0, 1, 13>>, <<0, 1, 0, 13>>, <<1, 0, 0, 13>>, <<255, 255, 255, 255>>}

TypeBytes == {0, 1, 2, 3, 255}

Tails == BSeq({17, 34}, MaxTail)

Raw(l, t, q, tl) == l \o <<t>> \o u64_to_be_bytes(q) \o tl

RawBuffers ==
    {Raw(l, t, q, tl) :
        l \in LenFields, t \in TypeBytes,
        q \in {<<0, 0, 0, 12345>>, <<258, 772, 1286, 1800>>}, tl \in Tails}

\* every prefix of every raw buffer, the empty buffer included
SmallBuffers == UNION {{Plain(SubSeq(r, 1, k)) : k \in 0..Len(r)} : r \in RawBuffers}

\* buffers of 2^32 - 1, 2^32 and 2^32 + 7 bytes
BigBufferLens ==
    {[hi |-> Word - 1, lo |-> Word - 1], [hi |-> Word, lo |-> 0], [hi |-> Word, lo |-> 7]}

BigBuffers ==
    {[len |-> n, head |-> Raw(l, t, <<258, 772, 1286, 1800>>, tl), fill |-> f] :
        n \in BigBufferLens, l \in LenFields, t \in TypeBytes,
        tl \in {<<>>, <<17>>}, f \in {0, 51}}

BufferInputs == {[kind |-> "buffer", buf |-> b] : b \in SmallBuffers \cup BigBuffers}

NotRun == [result |-> [kind |-> "None"]]

\* ------------------------------------------------------------ state machine
Init ==
    /\ input \in SegmentInputs \cup BufferInputs
    /\ encoded = NotRun
    /\ decoded = NotRun
    /\ redecoded = NotRun
    /\ reencoded = NotRun
    /\ f_encoded = NotRun
    /\ f_decoded = NotRun

\* segment.rs: segment.encode() on a constructed segment
Encode ==
    /\ input.kind = "segment"
    /\ encoded.result.kind = "None"
    /\ encoded' = encode_run(new(input.segment_type, input.seq, input.data))
    /\ UNCHANGED <<input, decoded, redecoded, reencoded, f_encoded, f_decoded>>

\* segment.rs: Segment::decode(&buf) on a received buffer
Decode ==
    /\ input.kind = "buffer"
    /\ decoded.result.kind = "None"
    /\ decoded' = decode_run(input.buf)
    /\ UNCHANGED <<input, encoded, redecoded, reencoded, f_encoded, f_decoded>>

\* segment.rs: Segment::decode(&encoded) on the buffer encode returned
DecodeEncoded ==
    /\ encoded.result.kind = "Ok"
    /\ redecoded.result.kind = "None"
    /\ redecoded' = decode_run(encoded.result.buf)
    /\ UNCHANGED <<input, encoded, decoded, reencoded, f_encoded, f_decoded>>

\* segment.rs: encode() on the segment decode returned
EncodeDecoded ==
    /\ decoded.result.kind = "Ok"
    /\ reencoded.result.kind = "None"
    /\ reencoded' = encode_run(decoded.result.seg)
    /\ UNCHANGED <<input, encoded, decoded, redecoded, f_encoded, f_decoded>>

\* frame.rs: segment.encode()
FrameEncode ==
    /\ input.kind = "segment"
    /\ f_encoded.result.kind = "None"
    /\ f_encoded' = frame_encode_run(frame_new(input.segment_type, input.seq, input.data))
    /\ UNCHANGED <<input, encoded, decoded, redecoded, reencoded, f_decoded>>

\* frame.rs: Segment::decode(&buf)
FrameDecode ==
    /\ input.kind = "buffer"
    /\ f_decoded.result.kind = "None"
    /\ f_decoded' = frame_decode_run(input.buf)
    /\ UNCHANGED <<input, encoded, decoded, redecoded, reencoded, f_encoded>>

Next ==
    \/ Encode
    \/ Decode
    \/ DecodeEncoded
    \/ EncodeDecoded
    \/ FrameEncode
    \/ FrameDecode

Spec == Init /\ [][Next]_vars

\* ------------------------------------------------------------ vocabulary of the claims
Max(x, y) == IF x >= y THEN x ELSE y

\* two buffers hold the same bytes
SameBytes(a, b) ==
    /\ a.len = b.len
    /\ \A i \in 0..Max(Len(a.head), Len(b.head)) :
          NumLt(N(i), a.len) => ByteAt(a, i) = ByteAt(b, i)

\* the first n bytes of a buffer (n a usize, n <= b.len)
Prefix(b, n) ==
    [len |-> n, head |-> SubSeq(b.head, 1, MinNat(n, Len(b.head))), fill |-> b.fill]

\* u32::MAX - 13 = 2^32 - 14, the longest payload the length field allows
MaxPayloadLen == [hi |-> Word - 1, lo |-> Word - 14]

\* the big-endian value of the first four bytes of b
Declared(b) ==
    [hi |-> ByteAt(b, 0) * 256 + ByteAt(b, 1), lo |-> ByteAt(b, 2) * 256 + ByteAt(b, 3)]

\* bytes b[at .. at+7] are the big-endian form of the u64 q
IsBigEndian64(b, at, q) ==
    \A k \in 1..4 :
        /\ ByteAt(b, at + 2 * (k - 1)) \in Byte
        /\ ByteAt(b, at + 2 * (k - 1) + 1) \in Byte
        /\ ByteAt(b, at + 2 * (k - 1)) * 256 + ByteAt(b, at + 2 * (k - 1) + 1) = q[k]

\* payload p is exactly bytes 13 .. 13 + p.len - 1 of the buffer b
IsPayloadOf(p, b) ==
    \A i \in 0..Max(Len(p.head), Len(b.head)) :
        NumLt(N(i), p.len) => ByteAt(p, i) = ByteAt(b, 13 + i)

\* the wire tag of each type, as the format's table gives it
WireTag(t) == IF t = "Data" THEN 0 ELSE IF t = "Ack" THEN 1 ELSE 2

\* decode's conditions for success, read off the buffer
WellFramed(b) ==
    /\ NumLe(N(4), b.len)
    /\ NumLe(N(13), Declared(b))
    /\ NumLe(Declared(b), b.len)
    /\ ByteAt(b, 4) \in {0, 1, 2}

Ran(v) == v.result.kind # "None"

\* ------------------------------------------------------------ claims

\* C1: round trip. For a segment of any type and sequence number whose payload
\* is at most 2^32 - 14 bytes long, encode succeeds, decode of the encoded
\* buffer succeeds, and the decoded segment has the same type, the same
\* sequence number and the same payload bytes.
C1_RoundTrip ==
    (input.kind = "segment" /\ NumLe(input.data.len, MaxPayloadLen)) =>
        /\ Ran(encoded) => encoded.result.kind = "Ok"
        /\ Ran(redecoded) =>
              /\ redecoded.result.kind = "Ok"
              /\ redecoded.result.seg.segment_type = input.segment_type
              /\ redecoded.result.seg.seq = input.seq
              /\ SameBytes(redecoded.result.seg.data, input.data)

C1_Witness ==
    /\ Ran(redecoded)
    /\ input.data.len = MaxPayloadLen
    /\ input.data.head # <<>>
    /\ input.seq = <<258, 772, 1286, 1800>>
    /\ input.segment_type = "Syn"

\* C2: wire layout. When encode succeeds on a payload of n bytes the buffer has
\* exactly 13 + n bytes: bytes 0..3 are 13 + n big-endian (so never the zero
\* placeholder), byte 4 is the type tag, bytes 5..12 the sequence number
\* big-endian, and bytes 13.. the payload in order.
C2_WireLayout ==
    (Ran(encoded) /\ encoded.result.kind = "Ok") =>
        LET buf == encoded.result.buf
        IN  /\ buf.len = NumAdd(N(13), input.data.len)
            /\ \A i \in 0..3 : ByteAt(buf, i) \in Byte
            /\ Declared(buf) = buf.len
            /\ <<ByteAt(buf, 0), ByteAt(buf, 1), ByteAt(buf, 2), ByteAt(buf, 3)>>
                  # <<0, 0, 0, 0>>
            /\ ByteAt(buf, 4) = WireTag(input.segment_type)
            /\ IsBigEndian64(buf, 5, input.seq)
            /\ IsPayloadOf(input.data, buf)

C2_Witness ==
    /\ Ran(encoded)
    /\ encoded.result.kind = "Ok"
    /\ input.data.head = <<17, 255>>
    /\ input.segment_type = "Ack"
    /\ input.seq = <<0, 0, 0, 12345>>

\* C3: overflow on encode. encode fails with TotalLenOverflow carrying 13 + n
\* exactly when the payload length n is above u32::MAX - 13, builds no buffer
\* then, and succeeds for every n up to u32::MAX - 13.
C3_Overflow ==
    Ran(encoded) =>
        IF NumLt(MaxPayloadLen, input.data.len)
        THEN /\ encoded.result =
                  [kind |-> "TotalLenOverflow", len |-> NumAdd(N(13), input.data.len)]
             /\ encoded.buf.kind = "None"
        ELSE encoded.result.kind = "Ok"

C3_Witness ==
    /\ Ran(encoded)
    /\ encoded.result.kind = "TotalLenOverflow"
    /\ input.data.len = [hi |-> Word - 1, lo |-> Word - 13]

\* C4: decode never panics and never reads outside its input: whatever the
\* buffer, it returns a Segment or one of the typed errors, and every byte
\* range it reads lies inside the buffer.
C4_DecodeSafe ==
    Ran(decoded) =>
        /\ decoded.result.kind \in {"Ok", "TooShort", "InvalidTotalLen", "UnknownFrameType"}
        /\ \A r \in decoded.reads :
              NumLe(r.from, r.to) /\ NumLe(r.to, input.buf.len)

C4_Witness ==
    /\ Ran(decoded)
    /\ input.buf.len = N(12)
    /\ Declared(input.buf) = N(12)
    /\ ByteAt(input.buf, 4) = 0

\* C5: a buffer of at least 4 bytes whose declared length d is below 13 or
\* above the buffer's length is answered InvalidTotalLen(d, buffer length),
\* whatever its type byte is.
C5_InvalidTotalLen ==
    (Ran(decoded) /\ NumLe(N(4), input.buf.len)
       /\ (NumLt(Declared(input.buf), N(13)) \/ NumLt(input.buf.len, Declared(input.buf)))) =>
        decoded.result =
            [kind |-> "InvalidTotalLen", declared |-> Declared(input.buf),
             actual |-> input.buf.len]

C5_Witness ==
    /\ Ran(decoded)
    /\ decoded.result.kind = "InvalidTotalLen"
    /\ NumLt(input.buf.len, Declared(input.buf))
    /\ NumLe(N(13), input.buf.len)
    /\ ByteAt(input.buf, 4) = 3

\* C6: closed-set type validation. With a declared length d, 13 <= d <= buffer
\* length, a type byte t other than 0, 1, 2 is answered UnknownType(t); every
\* decoded Segment has the type its tag 0, 1 or 2 stands for.
C6_ClosedTypes ==
    Ran(decoded) =>
        /\ (/\ NumLe(N(4), input.buf.len)
            /\ NumLe(N(13), Declared(input.buf))
            /\ NumLe(Declared(input.buf), input.buf.len)
            /\ ByteAt(input.buf, 4) \notin {0, 1, 2}) =>
               decoded.result = [kind |-> "UnknownFrameType", t |-> ByteAt(input.buf, 4)]
        /\ decoded.result.kind = "Ok" =>
               /\ decoded.result.seg.segment_type \in {"Data", "Ack", "Syn"}
               /\ WireTag(decoded.result.seg.segment_type) = ByteAt(input.buf, 4)

C6_Witness ==
    /\ Ran(decoded)
    /\ decoded.result.kind = "UnknownFrameType"
    /\ decoded.result.t = 255
    /\ NumLt(Declared(input.buf), input.buf.len)

\* C7: a buffer of 0, 1, 2 or 3 bytes is answered TooShort, and a buffer of 4
\* bytes or more never is.
C7_TooShort ==
    Ran(decoded) =>
        (decoded.result.kind = "TooShort" <=> input.buf.len \in {N(0), N(1), N(2), N(3)})

C7_Witness ==
    /\ Ran(decoded)
    /\ decoded.result.kind = "TooShort"
    /\ input.buf.len = N(3)

\* C8: decode succeeds exactly when the buffer has 4 bytes or more, its
\* declared length d has 13 <= d <= buffer length and the type byte is 0, 1, 2;
\* the payload is then bytes 13 .. d-1 (d - 13 of them) and the sequence number
\* the big-endian value of bytes 5..12; bytes from offset d on play no part.
C8_DecodeSuccess ==
    Ran(decoded) =>
        /\ decoded.result.kind = "Ok" <=> WellFramed(input.buf)
        /\ decoded.result.kind = "Ok" =>
              /\ NumAdd(N(13), decoded.result.seg.data.len) = Declared(input.buf)
              /\ IsPayloadOf(decoded.result.seg.data, input.buf)
              /\ IsBigEndian64(input.buf, 5, decoded.result.seg.seq)

C8_Witness ==
    /\ Ran(decoded)
    /\ decoded.result.kind = "Ok"
    /\ Declared(input.buf) = N(14)
    /\ input.buf.len = N(15)

\* C9: the codec of frame.rs and the codec of segment.rs agree: on a segment,
\* the same bytes or the same overflow error with the same length; on a
\* buffer, the same segment or the same error with the same values.
C9_CopiesAgree ==
    /\ (Ran(encoded) /\ Ran(f_encoded)) =>
          /\ f_encoded.result.kind = encoded.result.kind
          /\ encoded.result.kind = "Ok" =>
                SameBytes(f_encoded.result.buf, encoded.result.buf)
          /\ encoded.result.kind # "Ok" => f_encoded.result = encoded.result
    /\ (Ran(decoded) /\ Ran(f_decoded)) =>
          /\ f_decoded.result.kind = decoded.result.kind
          /\ decoded.result.kind = "Ok" =>
                /\ f_decoded.result.seg.frame_type = decoded.result.seg.segment_type
                /\ f_decoded.result.seg.seq = decoded.result.seg.seq
                /\ SameBytes(f_decoded.result.seg.data, decoded.result.seg.data)
          /\ decoded.result.kind # "Ok" => f_decoded.result = decoded.result

C9_Witness ==
    /\ Ran(decoded)
    /\ Ran(f_decoded)
    /\ decoded.result.kind = "Ok"
    /\ input.buf.len = Declared(input.buf)
    /\ Declared(input.buf) = N(15)

\* exact-length frames the injectivity part of C10 is probed with
ProbeFrames ==
    {Plain(Raw(<<0, 0, 0, 13 + Len(tl)>>, t, q, tl)) :
        t \in {0, 1}, q \in {<<0, 0, 0, 12345>>, <<258, 772, 1286, 1800>>},
        tl \in BSeq({17, 34}, 2)}

\* C10: re-encoding a decoded buffer gives back its framed prefix: when decode
\* succeeds with declared length d, encode of the decoded segment succeeds and
\* returns the first d bytes of the buffer; so a frame that decodes to the same
\* segment has the same first d bytes.
C10_Reencode ==
    /\ Ran(reencoded) =>
          /\ reencoded.result.kind = "Ok"
          /\ SameBytes(reencoded.result.buf, Prefix(input.buf, Declared(input.buf)))
    /\ (Ran(decoded) /\ decoded.result.kind = "Ok") =>
          \A p \in ProbeFrames :
              LET r == decode(p)
              IN  (/\ r.kind = "Ok"
                   /\ r.seg.segment_type = decoded.result.seg.segment_type
                   /\ r.seg.seq = decoded.result.seg.seq
                   /\ SameBytes(r.seg.data, decoded.result.seg.data)) =>
                      SameBytes(Prefix(p, Declared(p)),
                                Prefix(input.buf, Declared(input.buf)))

C10_Witness ==
    /\ Ran(reencoded)
    /\ NumLt(Declared(input.buf), input.buf.len)
    /\ Declared(input.buf) = N(14)
    /\ ByteAt(input.buf, 4) = 2

====
